---- MODULE Spec2Model ----
(***************************************************************************)
(* Model of Sarvis, a wrapper around fetch.  The repository holds three    *)
(* copies of the class, which differ in a few places:                      *)
(*   "first"      src/unnamed/part_000 lines 1-162   (no hooks, no merge)  *)
(*   "index"      src/src/index.ts                                         *)
(*   "refactored" src/unnamed/part_000 lines 164-337 (prepareRequest /     *)
(*                excecuteRequest)                                         *)
(* The variable version says which copy an instance is built from.         *)
(*                                                                         *)
(* A JavaScript value is a record [t |-> type tag, v |-> text]; a          *)
(* RequestInit object is a function from the keys it owns to their values  *)
(* (method and body are JavaScript values, headers is the sequence of      *)
(* pairs appended to a Headers object).                                    *)
(***************************************************************************)
EXTENDS Naturals, Sequences, FiniteSets, TLC

VARIABLES version, config, api_url, useBefore, useAfter, returnFullRequest, calls

vars == <<version, config, api_url, useBefore, useAfter, returnFullRequest, calls>>

\* Number of call slots of the model (calls that can be in flight at once).
MaxCalls == 2

CallIds == 1..MaxCalls

Versions == {"first", "index", "refactored"}

---------------------------------------------------------------------------
(* JavaScript values *)

Undefined == [t |-> "undefined", v |-> "undefined"]
Null == [t |-> "null", v |-> "null"]
Str(s) == [t |-> "string", v |-> s]
Num(s) == [t |-> "number", v |-> s]
Bool(s) == [t |-> "boolean", v |-> s]
Obj(s) == [t |-> "object", v |-> s]
Err(s) == [t |-> "Error", v |-> s]
Response(s) == [t |-> "Response", v |-> s]

\* ToBoolean, as applied by `if (x)`, `!x` and `x ? a : b`.
Truthy(x) ==
    CASE x.t = "undefined" -> FALSE
      [] x.t = "null" -> FALSE
      [] x.t = "boolean" -> x.v = "true"
      [] x.t = "number" -> x.v \notin {"0", "NaN"}
      [] x.t = "string" -> x.v # ""
      [] OTHER -> TRUE

\* ToString, as applied by `+` with a string operand and by template literals.
ToStr(x) ==
    CASE x.t = "object" -> "[object Object]"
      [] x.t = "Response" -> "[object Response]"
      [] OTHER -> x.v

\* a + b where a is a string.
Concat(a, b) == Str(ToStr(a) \o ToStr(b))

\* JSON.stringify(x); an object carries its JSON text.
JSONstringify(x) ==
    CASE x.t = "undefined" -> Undefined
      [] x.t = "string" -> Str("\"" \o x.v \o "\"")
      [] OTHER -> Str(x.v)

\* response.ok
Ok(r) == r.t = "Response" /\ r.v = "200"

---------------------------------------------------------------------------
(* Configuration and URL composition *)

\* this.config when the constructor was given no configuration and did not
\* put {} in its place (the first copy).
NoConfig == Undefined

\* createApiUrl of the first copy and of index.ts: base_url + base_path + port.
createApiUrl_index(cfg) ==
    IF cfg = NoConfig \/ ~Truthy(cfg.base_url) THEN Undefined
    ELSE LET u0 == cfg.base_url
             u1 == IF Truthy(cfg.base_path) THEN Concat(u0, cfg.base_path) ELSE u0
             u2 == IF Truthy(cfg.port) THEN Concat(u1, cfg.port) ELSE u1
         IN u2

\* createApiUrl of the refactored copy: base_url [":" port] [base_path].
createApiUrl_refactored(cfg) ==
    IF cfg = NoConfig \/ ~Truthy(cfg.base_url) THEN Undefined
    ELSE Str(ToStr(cfg.base_url)
             \o (IF Truthy(cfg.port) THEN ":" \o ToStr(cfg.port) ELSE "")
             \o (IF Truthy(cfg.base_path) THEN ToStr(cfg.base_path) ELSE ""))

createApiUrl(ver, cfg) ==
    IF ver = "refactored" THEN createApiUrl_refactored(cfg) ELSE createApiUrl_index(cfg)

getApiUrl(url) == IF Truthy(url) THEN url ELSE Str("")

---------------------------------------------------------------------------
(* Request options *)

Header(n, val) == [name |-> n, value |-> val]

\* withAuthHeader testing `authorization === undefined` in place of
\* `!authorization`.
withAuthHeaderIfDefined(cfg, headers) ==
    IF cfg = NoConfig \/ cfg.authorization = Undefined THEN headers
    ELSE Append(headers, Header("Authorization", cfg.authorization.v))

withAuthHeader(cfg, headers) ==
    IF cfg = NoConfig \/ ~Truthy(cfg.authorization) THEN headers
    ELSE Append(headers, Header("Authorization", cfg.authorization.v))

basicHeaders(cfg) == withAuthHeader(cfg, <<Header("Content-Type", "application/json")>>)

getBasicRequestConfig(cfg, method, body) ==
    [method |-> IF Truthy(method) THEN method ELSE Str("GET"),
     headers |-> basicHeaders(cfg),
     body |-> IF Truthy(body) THEN JSONstringify(body) ELSE Undefined]

\* {...a, ...b}
Spread(a, b) == [k \in DOMAIN a \cup DOMAIN b |-> IF k \in DOMAIN b THEN b[k] ELSE a[k]]

\* An object with no own keys; spreading undefined adds no key either.
NoOptions == [k \in {} |-> Undefined]

\* The first copy's verb methods: api_url stays as the constructor left it and
\* an override is taken in place of the defaults.  custom is read only when
\* customGiven holds.
prepareRequest_first(cfg, url0, path, method, body, customGiven, custom) ==
    [api_url |-> url0,
     buildUrl |-> Concat(getApiUrl(url0), path),
     finalConfig |-> IF customGiven THEN custom
                     ELSE getBasicRequestConfig(cfg, method, body)]

\* prepareRequest of the refactored copy, which is the first three statements
\* of a verb method of index.ts: api_url is composed again (by the copy's own
\* createApiUrl) and the override is spread over the defaults.
prepareRequest_refactored(ver, cfg, path, method, body, customGiven, custom) ==
    LET url1 == createApiUrl(ver, cfg)
    IN [api_url |-> url1,
        buildUrl |-> Concat(getApiUrl(url1), path),
        finalConfig |-> Spread(getBasicRequestConfig(cfg, method, body),
                               IF customGiven THEN custom ELSE NoOptions)]

prepareRequest(ver, cfg, url0, path, method, body, customGiven, custom) ==
    IF ver = "first"
    THEN prepareRequest_first(cfg, url0, path, method, body, customGiven, custom)
    ELSE prepareRequest_refactored(ver, cfg, path, method, body, customGiven, custom)

---------------------------------------------------------------------------
(* Hooks: the functions a caller may assign to useBefore and useAfter *)

NoHook == "undefined"

\* (url, config) => { url = url + "/todos";
\*                    config.headers.append("Content-Type", "blob");
\*                    return {url, config} }          (the Readme's example)
\* (url, config) => ({url: "http://other.test/x", config: {method: "HEAD"}})
BeforeHooks == {"appendTodos", "constant"}

callBefore(hook, url, cfg) ==
    IF hook = "appendTodos"
    THEN [url |-> Concat(url, Str("/todos")),
          config |-> [cfg EXCEPT !["headers"] =
                         Append(@, Header("Content-Type", "blob"))]]
    ELSE [url |-> Str("http://other.test/x"), config |-> [method |-> Str("HEAD")]]

\* (result) => ({wrapped: result})
\* (result) => { console.log(result) }               (returns undefined)
AfterHooks == {"wrap", "discard"}

callAfter(hook, x) ==
    IF hook = "wrap"
    THEN Obj("{wrapped:" \o x.t \o " " \o x.v \o "}")
    ELSE Undefined

---------------------------------------------------------------------------
(* fetchRequest, cut at its suspension points *)

Envelope(r, e) == [result |-> r, error |-> e]

\* beforeFetch calling the hook and dropping what it returns.
beforeFetchKeepsRequest(hook, url, cfg) ==
    [url |-> url, config |-> cfg, nBefore |-> IF hook # NoHook THEN 1 ELSE 0]

\* Lines 129-133: the pair handed to fetch.
beforeFetch(hook, url, cfg) ==
    IF hook # NoHook
    THEN LET r == callBefore(hook, url, cfg)
         IN [url |-> r.url, config |-> r.config, nBefore |-> 1]
    ELSE [url |-> url, config |-> cfg, nBefore |-> 0]

\* afterAndReturn calling the hook and returning the value it was given.
afterAndReturnKeepsValue(hook, x) ==
    [envelope |-> Envelope(x, Null), nAfter |-> IF hook # NoHook THEN 1 ELSE 0]

\* `if (this.useAfter) { x = this.useAfter(x) } return {result: x, error: null}`
afterAndReturn(hook, x) ==
    IF hook # NoHook
    THEN [envelope |-> Envelope(callAfter(hook, x), Null), nAfter |-> 1]
    ELSE [envelope |-> Envelope(x, Null), nAfter |-> 0]

\* excecuteRequest of the refactored copy, which is the end of post, put and
\* delete in the other two copies.
\* The flag as a call would see it if it were read when the call is made.
readReturnFullRequestAtStart(call, flag) == call.rawAtStart

\* `if (this.returnFullRequest)`, evaluated when the call resumes from
\* `await fetch`: the field as it is then.
readReturnFullRequest(call, flag) == flag

\* `if (this.useAfter)` / `this.useAfter(...)`, evaluated after the await
\* before it: the field as it is then.
readUseAfter(call, hook) == hook

excecuteRequest(env) ==
    IF Truthy(env.error)
    THEN [kind |-> "rejected", value |-> env.error]
    ELSE [kind |-> "resolved", value |-> env.result]

\* The end of get in the first copy and in index.ts.
getUnwrap_index(env) ==
    IF Truthy(env.error)
    THEN [kind |-> "rejected", value |-> Concat(Str("An Error"), env.error)]
    ELSE [kind |-> "resolved", value |-> env.result]

\* The verb method's unwrapping of the envelope.
unwrap(ver, verb, env) ==
    IF verb = "GET" /\ ver # "refactored" THEN getUnwrap_index(env)
    ELSE excecuteRequest(env)

---------------------------------------------------------------------------
(* Inputs *)

BaseUrls == {Undefined, Str("http://h")}
Ports == {Undefined, Num("0"), Num("8080")}
BasePaths == {Undefined, Str("/api")}
Authorizations == {Undefined, Str(""), Str("Bearer xyz")}

\* ISarvisConfig; an absent field reads as undefined.
Configs ==
    [base_url : BaseUrls, port : Ports, base_path : BasePaths,
     authorization : Authorizations]

\* this.config after construction: the argument; without an argument, {} in
\* index.ts and the refactored copy, undefined in the first copy.
ConstructedConfigs(ver) == IF ver = "first" THEN Configs \cup {NoConfig} ELSE Configs

Verbs == {"GET", "POST", "PUT", "DELETE"}
Paths == {Str("/todos")}
Bodies == {Undefined, Num("0"), Bool("false"), Str(""), Obj("{\"todo\":\"Clean\"}")}

\* customConfig objects
Customs ==
    {[method |-> Str("PATCH")],
     [headers |-> <<Header("Accept", "text/plain")>>, body |-> Str("raw")]}

\* What a transport promise, or json(), can reject with.
Raised == {Undefined, Null, Num("0"), Str(""), Err("TypeError: Failed to fetch")}
Responses == {Response("200"), Response("404")}
\* What json() can resolve with.
Parsed == {Null, Num("0"), Obj("{\"id\":1}")}

---------------------------------------------------------------------------
(* State *)

\* A call slot.  cfg, body, custom, reqUrl, reqConfig, sentUrl and sentConfig
\* are the locals of the synchronous part of a verb call; they are not read
\* after the first suspension and the slot lets go of them there.  rawAtStart
\* and afterAtStart are the values returnFullRequest and useAfter had when the
\* call was made (the call itself does not read them then).
\* entry is the public method the caller called: a verb method ("verb"),
\* excecuteRequest or fetchRequest.
IdleCall ==
    [pc |-> "idle", entry |-> "none", verb |-> "GET",
     cfg |-> [base_url |-> Undefined, port |-> Undefined, base_path |-> Undefined,
              authorization |-> Undefined],
     path |-> Undefined, body |-> Undefined, customGiven |-> FALSE, custom |-> NoOptions,
     reqUrl |-> Undefined, reqConfig |-> NoOptions,
     sentUrl |-> Undefined, sentConfig |-> NoOptions,
     nBefore |-> 0, nFetch |-> 0, nJson |-> 0, nAfter |-> 0,
     cause |-> "none", raised |-> Undefined,
     response |-> Undefined, parsed |-> Undefined,
     rawAtStart |-> FALSE, afterAtStart |-> NoHook,
     rawRead |-> "unread", afterRead |-> "unread",
     envelope |-> Envelope(Undefined, Undefined),
     outcome |-> [kind |-> "pending", value |-> Undefined]]

Init ==
    /\ version \in Versions
    /\ config \in ConstructedConfigs(version)
    /\ api_url = createApiUrl(version, config)
    /\ useBefore = NoHook
    /\ useAfter = NoHook
    /\ returnFullRequest = FALSE
    /\ calls = [c \in CallIds |-> IdleCall]

InFlight(c) == calls[c].pc \in {"fetching", "parsing", "returned"}

\* fetchRequest returns envelope env; the verb method (excecuteRequest in the
\* refactored copy), suspended on `await this.fetchRequest(...)`, has yet to
\* resume.  When the caller called fetchRequest itself, the envelope is what
\* the caller's promise resolves with.
Returned(call, env) ==
    IF call.entry = "fetchRequest"
    THEN [call EXCEPT !.pc = "done", !.envelope = env,
                      !.outcome = [kind |-> "resolved", value |-> env]]
    ELSE [call EXCEPT !.pc = "returned", !.envelope = env]

\* A slot past its first suspension.
Resumed(call) ==
    [call EXCEPT !.cfg = IdleCall.cfg, !.path = Undefined, !.body = Undefined,
                 !.customGiven = FALSE, !.custom = NoOptions,
                 !.reqUrl = Undefined, !.reqConfig = NoOptions,
                 !.sentUrl = Undefined, !.sentConfig = NoOptions]

---------------------------------------------------------------------------
(* The caller's assignments to the public fields *)

\* this.config.field = val; with no configuration object the assignment
\* throws and changes nothing.
SetConfig(field, val) ==
    /\ config # NoConfig
    /\ config' = [config EXCEPT ![field] = val]
    /\ config' # config
    /\ UNCHANGED <<version, api_url, useBefore, useAfter, returnFullRequest, calls>>

\* The first copy has no hooks and no flag.
SetUseBefore(hook) ==
    /\ version # "first"
    /\ useBefore' = hook
    /\ useBefore' # useBefore
    /\ UNCHANGED <<version, config, api_url, useAfter, returnFullRequest, calls>>

SetUseAfter(hook) ==
    /\ version # "first"
    /\ useAfter' = hook
    /\ useAfter' # useAfter
    /\ UNCHANGED <<version, config, api_url, useBefore, returnFullRequest, calls>>

SetReturnFullRequest(flag) ==
    /\ version # "first"
    /\ returnFullRequest' = flag
    /\ returnFullRequest' # returnFullRequest
    /\ UNCHANGED <<version, config, api_url, useBefore, useAfter, calls>>

---------------------------------------------------------------------------
(* A verb call *)

\* get/post/put/delete up to the first suspension: the URL and the options are
\* built, the pre-request hook runs and fetch is called.
Start(c, verb, path, body, customGiven, custom) ==
    /\ calls[c].pc = "idle"
    /\ LET p == prepareRequest(version, config, api_url, path, Str(verb), body,
                               customGiven, custom)
           b == beforeFetch(useBefore, p.buildUrl, p.finalConfig)
       IN /\ api_url' = p.api_url
          /\ calls' = [calls EXCEPT ![c] =
                [IdleCall EXCEPT
                    !.pc = "fetching", !.entry = "verb",
                    !.verb = verb, !.cfg = config, !.path = path, !.body = body,
                    !.customGiven = customGiven,
                    !.custom = IF customGiven THEN custom ELSE NoOptions,
                    !.reqUrl = p.buildUrl, !.reqConfig = p.finalConfig,
                    !.nBefore = b.nBefore, !.nFetch = 1,
                    !.sentUrl = b.url, !.sentConfig = b.config,
                    !.rawAtStart = returnFullRequest, !.afterAtStart = useAfter]]
    /\ UNCHANGED <<version, config, useBefore, useAfter, returnFullRequest>>

\* fetchRequest(url, cfg) of index.ts and of the refactored copy up to its
\* suspension, for a call that did not come through a verb method: the
\* pre-request hook runs and fetch is called; api_url is neither composed nor
\* read.
DirectCall(entry, url, cfg) ==
    LET b == beforeFetch(useBefore, url, cfg)
    IN [IdleCall EXCEPT
           !.pc = "fetching", !.entry = entry,
           !.reqUrl = url, !.reqConfig = cfg,
           !.nBefore = b.nBefore, !.nFetch = 1,
           !.sentUrl = b.url, !.sentConfig = b.config,
           !.rawAtStart = returnFullRequest, !.afterAtStart = useAfter]

\* fetchRequest(promise) of the first copy: the caller has called fetch and
\* hands over its promise, which fetchRequest awaits.
DirectCall_first(entry) == [IdleCall EXCEPT !.pc = "fetching", !.entry = entry]

\* The caller calls fetchRequest.
StartFetchRequest(c, url, cfg) ==
    /\ calls[c].pc = "idle"
    /\ calls' = [calls EXCEPT ![c] =
          IF version = "first" THEN DirectCall_first("fetchRequest")
          ELSE DirectCall("fetchRequest", url, cfg)]
    /\ UNCHANGED <<version, config, api_url, useBefore, useAfter, returnFullRequest>>

\* The caller calls excecuteRequest (refactored copy), which calls
\* fetchRequest with its arguments.
StartExcecuteRequest(c, url, cfg) ==
    /\ version = "refactored"
    /\ calls[c].pc = "idle"
    /\ calls' = [calls EXCEPT ![c] = DirectCall("excecuteRequest", url, cfg)]
    /\ UNCHANGED <<version, config, api_url, useBefore, useAfter, returnFullRequest>>

\* The caller calls prepareRequest (refactored copy): api_url is composed
\* again; the URL and the options built go back to the caller.
PrepareRequest(path, method, body, customGiven, custom) ==
    /\ version = "refactored"
    /\ api_url' = prepareRequest_refactored(version, config, path, method, body,
                                            customGiven, custom).api_url
    /\ UNCHANGED <<version, config, useBefore, useAfter, returnFullRequest, calls>>

\* The transport promise rejects with val.
FetchRejects(c, val) ==
    /\ calls[c].pc = "fetching"
    /\ calls' = [calls EXCEPT ![c] =
          Returned([Resumed(@) EXCEPT !.cause = "transport", !.raised = val],
                  Envelope(Null, val))]
    /\ UNCHANGED <<version, config, api_url, useBefore, useAfter, returnFullRequest>>

\* The transport promise resolves with response r.
FetchResolves(c, r) ==
    /\ calls[c].pc = "fetching"
    /\ LET call == [Resumed(calls[c]) EXCEPT !.response = r]
       IN calls' = [calls EXCEPT ![c] =
            IF ~Ok(r)
            THEN Returned([call EXCEPT !.cause = "status", !.raised = r],
                         Envelope(Null, r))
            ELSE IF readReturnFullRequest(calls[c], returnFullRequest)
            THEN LET hook == readUseAfter(calls[c], useAfter)
                     a == afterAndReturn(hook, r)
                 IN Returned([call EXCEPT !.rawRead = "true", !.afterRead = hook,
                                         !.nAfter = a.nAfter],
                            a.envelope)
            ELSE [call EXCEPT !.pc = "parsing", !.rawRead = "false", !.nJson = 1]]
    /\ UNCHANGED <<version, config, api_url, useBefore, useAfter, returnFullRequest>>

\* The promise of result.json() rejects with val.
JsonRejects(c, val) ==
    /\ calls[c].pc = "parsing"
    /\ calls' = [calls EXCEPT ![c] =
          Returned([@ EXCEPT !.cause = "json", !.raised = val], Envelope(Null, val))]
    /\ UNCHANGED <<version, config, api_url, useBefore, useAfter, returnFullRequest>>

\* The promise of result.json() resolves with val.
JsonResolves(c, val) ==
    /\ calls[c].pc = "parsing"
    /\ LET hook == readUseAfter(calls[c], useAfter)
           a == afterAndReturn(hook, val)
       IN calls' = [calls EXCEPT ![c] =
            Returned([@ EXCEPT !.parsed = val, !.afterRead = hook,
                              !.nAfter = a.nAfter],
                    a.envelope)]
    /\ UNCHANGED <<version, config, api_url, useBefore, useAfter, returnFullRequest>>

\* The verb method resumes from `await this.fetchRequest(...)` with the
\* envelope, tests its error and rejects or returns the result.
VerbResumes(c) ==
    /\ calls[c].pc = "returned"
    /\ calls' = [calls EXCEPT ![c] =
          [@ EXCEPT !.pc = "done",
                    !.outcome = unwrap(version, calls[c].verb, calls[c].envelope)]]
    /\ UNCHANGED <<version, config, api_url, useBefore, useAfter, returnFullRequest>>

\* The caller takes the settled promise's outcome; the slot is free again.
Return(c) ==
    /\ calls[c].pc = "done"
    /\ calls' = [calls EXCEPT ![c] = IdleCall]
    /\ UNCHANGED <<version, config, api_url, useBefore, useAfter, returnFullRequest>>

---------------------------------------------------------------------------
(* Spec, the request side: every configuration, pre-request hook, verb,    *)
(* body and override, with one outcome of each kind.  One call at a time;  *)
(* the caller changes the configuration between calls.                     *)

Quiescent == \A c \in CallIds : calls[c].pc = "idle"

FetchFailure == Err("TypeError: Failed to fetch")
ParseFailure == Err("SyntaxError: Unexpected token")
Todo == Obj("{\"id\":1}")

\* The options a caller hands to fetchRequest or excecuteRequest.
DirectOptions ==
    {[method |-> Str("GET"),
      headers |-> <<Header("Content-Type", "application/json")>>,
      body |-> Undefined]}

\* The customConfig argument: omitted, or one of Customs.
CustomArgs ==
    {[given |-> FALSE, custom |-> NoOptions]}
        \cup {[given |-> TRUE, custom |-> o] : o \in Customs}

Next ==
    \/ \E val \in BaseUrls : Quiescent /\ SetConfig("base_url", val)
    \/ \E val \in Ports : Quiescent /\ SetConfig("port", val)
    \/ \E val \in BasePaths : Quiescent /\ SetConfig("base_path", val)
    \/ \E val \in Authorizations : Quiescent /\ SetConfig("authorization", val)
    \/ \E h \in BeforeHooks \cup {NoHook} : Quiescent /\ SetUseBefore(h)
    \/ \E c \in CallIds, path \in Paths, a \in CustomArgs :
          Quiescent /\ Start(c, "GET", path, Undefined, a.given, a.custom)
    \/ \E c \in CallIds, verb \in Verbs \ {"GET"}, path \in Paths, body \in Bodies,
          a \in CustomArgs :
          Quiescent /\ Start(c, verb, path, body, a.given, a.custom)
    \/ \E c \in CallIds, path \in Paths, o \in DirectOptions :
          Quiescent /\ StartFetchRequest(c, path, o)
    \/ \E c \in CallIds, path \in Paths, o \in DirectOptions :
          Quiescent /\ StartExcecuteRequest(c, path, o)
    \/ \E path \in Paths :
          Quiescent /\ PrepareRequest(path, Str("GET"), Undefined, FALSE, NoOptions)
    \/ \E c \in CallIds : FetchRejects(c, FetchFailure)
    \/ \E c \in CallIds, r \in Responses : FetchResolves(c, r)
    \/ \E c \in CallIds : JsonRejects(c, ParseFailure)
    \/ \E c \in CallIds : JsonResolves(c, Todo)
    \/ \E c \in CallIds : VerbResumes(c)
    \/ \E c \in CallIds : Return(c)

Spec == Init /\ [][Next]_vars

---------------------------------------------------------------------------
(* SpecSettle, the response side: every transport and json() outcome,      *)
(* post-response hook and flag value, the hook and the flag changing at    *)
(* any time, also while the call is suspended, for one body and one        *)
(* configuration per base_url.  One call at a time.                        *)

SettleConfigs ==
    {cfg \in Configs : cfg.port = Undefined /\ cfg.base_path = Undefined
                       /\ cfg.authorization = Undefined}

InitSettle == Init /\ config \in SettleConfigs

NextSettle ==
    \/ \E h \in AfterHooks \cup {NoHook} : SetUseAfter(h)
    \/ \E b \in BOOLEAN : SetReturnFullRequest(b)
    \/ \E c \in CallIds, path \in Paths :
          Quiescent /\ Start(c, "GET", path, Undefined, FALSE, NoOptions)
    \/ \E c \in CallIds, verb \in Verbs \ {"GET"}, path \in Paths :
          Quiescent /\ Start(c, verb, path, Todo, FALSE, NoOptions)
    \/ \E c \in CallIds, val \in Raised : FetchRejects(c, val)
    \/ \E c \in CallIds, r \in Responses : FetchResolves(c, r)
    \/ \E c \in CallIds, val \in Raised : JsonRejects(c, val)
    \/ \E c \in CallIds, val \in Parsed : JsonResolves(c, val)
    \/ \E c \in CallIds : VerbResumes(c)
    \/ \E c \in CallIds : Return(c)

SpecSettle == InitSettle /\ [][NextSettle]_vars

---------------------------------------------------------------------------
(* SpecConc, calls side by side: a verb call starts while others are       *)
(* suspended on the transport, and the caller assigns to the configuration *)
(* at any time, for two base_urls and two authorization strings.           *)

ConcAuthorizations == {Undefined, Str("Bearer xyz")}

ConcConfigs ==
    {cfg \in Configs : cfg.port = Undefined /\ cfg.base_path = Undefined
                       /\ cfg.authorization \in ConcAuthorizations}

InitConc == Init /\ config \in ConcConfigs

NextConc ==
    \/ \E val \in BaseUrls : SetConfig("base_url", val)
    \/ \E val \in ConcAuthorizations : SetConfig("authorization", val)
    \/ \E c \in CallIds, path \in Paths :
          Start(c, "GET", path, Undefined, FALSE, NoOptions)
    \/ \E c \in CallIds, path \in Paths :
          Start(c, "POST", path, Todo, FALSE, NoOptions)
    \/ \E c \in CallIds : FetchRejects(c, FetchFailure)
    \/ \E c \in CallIds : VerbResumes(c)
    \/ \E c \in CallIds : Return(c)

SpecConc == InitConc /\ [][NextConc]_vars

---------------------------------------------------------------------------
(* SpecRace, the flag and the post-response hook against calls in flight:  *)
(* post calls side by side under one configuration, the caller assigning   *)
(* to returnFullRequest and useAfter (one hook, or none) at any time.      *)

RaceConfigs == {cfg \in SettleConfigs : cfg.base_url # Undefined}

RaceHooks == {NoHook, "wrap"}

InitRace == Init /\ config \in RaceConfigs

NextRace ==
    \/ \E h \in RaceHooks : SetUseAfter(h)
    \/ \E b \in BOOLEAN : SetReturnFullRequest(b)
    \/ \E c \in CallIds, path \in Paths :
          Start(c, "POST", path, Todo, FALSE, NoOptions)
    \/ \E c \in CallIds, r \in Responses : FetchResolves(c, r)
    \/ \E c \in CallIds : JsonResolves(c, Todo)
    \/ \E c \in CallIds : VerbResumes(c)
    \/ \E c \in CallIds : Return(c)

SpecRace == InitRace /\ [][NextRace]_vars

---------------------------------------------------------------------------
(* Claims *)

\* A verb call that has settled; a verb call suspended on the transport.
Done(c) == calls[c].pc = "done" /\ calls[c].entry = "verb"
Fetching(c) == calls[c].pc = "fetching" /\ calls[c].entry = "verb"
Rejected(c, x) == calls[c].outcome = [kind |-> "rejected", value |-> x]
Resolved(c, x) == calls[c].outcome = [kind |-> "resolved", value |-> x]

\* C1: a verb call whose envelope carries an error (one the method's test
\* `if (error)` sees) rejects with that very value; a call whose envelope
\* carries none resolves with the envelope's result.
ClaimC1 ==
    \A c \in CallIds :
        Done(c) =>
            IF Truthy(calls[c].envelope.error)
            THEN Rejected(c, calls[c].envelope.error)
            ELSE Resolved(c, calls[c].envelope.result)

\* base_url, then ":" and the port if there is a port, then base_path if there
\* is a base_path; a port of 0 counts as no port, as in every copy's test.
ComposedAsSpecified(cfg) ==
    Str(cfg.base_url.v
        \o (IF cfg.port \notin {Undefined, Num("0")} THEN ":" \o cfg.port.v ELSE "")
        \o (IF cfg.base_path # Undefined THEN cfg.base_path.v ELSE ""))

\* C2: with a non-empty base_url, the URL createApiUrl composes for a call is
\* base_url [":" port] [base_path], in that order.
ClaimC2 ==
    \A c \in CallIds :
        (Fetching(c) /\ version # "first" /\ Truthy(calls[c].cfg.base_url))
            => api_url = ComposedAsSpecified(calls[c].cfg)

\* C3: a call whose response has ok = false rejects with that response object,
\* returns no result, never parses the body and never runs the post-response
\* hook.
ClaimC3 ==
    \A c \in CallIds :
        (Done(c) /\ calls[c].response.t = "Response" /\ ~Ok(calls[c].response))
            => /\ Rejected(c, calls[c].response)
               /\ calls[c].envelope.result = Null
               /\ calls[c].nJson = 0
               /\ calls[c].nAfter = 0

\* C4: a call whose transport call or JSON parsing raised a value, whatever
\* the value, rejects, and fetch was called once.
ClaimC4 ==
    \A c \in CallIds :
        (Done(c) /\ calls[c].cause \in {"transport", "json"})
            => /\ calls[c].outcome.kind = "rejected"
               /\ calls[c].nFetch = 1

\* A field of the envelope that holds something.
Present(x) == x # Null /\ x # Undefined

\* C5: an envelope has exactly one of result and error populated, the other
\* being null.
ClaimC5 ==
    \A c \in CallIds :
        Done(c) =>
            \/ Present(calls[c].envelope.result) /\ calls[c].envelope.error = Null
            \/ Present(calls[c].envelope.error) /\ calls[c].envelope.result = Null

\* C6: with a pre-request hook registered, the hook has run exactly once in a
\* call that has reached fetch, fetch was called once, and fetch was given
\* exactly the URL and options the hook returned for the URL and options the
\* verb method built; the hook does not run again while the call completes.
TheoremC6 ==
    \A c \in CallIds :
        (calls[c].pc # "idle" /\ useBefore # NoHook)
            => /\ calls[c].nBefore = 1
               /\ calls[c].nFetch = 1
               /\ calls[c].pc = "fetching" =>
                    /\ calls[c].sentUrl =
                          callBefore(useBefore, calls[c].reqUrl, calls[c].reqConfig).url
                    /\ calls[c].sentConfig =
                          callBefore(useBefore, calls[c].reqUrl, calls[c].reqConfig).config

\* A call is fetching with what a hook returned, which is neither the URL nor
\* the options that went into the hook.
WitnessC6 ==
    \E c \in CallIds :
        /\ Fetching(c)
        /\ useBefore = "constant"
        /\ calls[c].nBefore = 1
        /\ calls[c].sentUrl = Str("http://other.test/x")
        /\ calls[c].sentUrl # calls[c].reqUrl
        /\ calls[c].sentConfig # calls[c].reqConfig

\* The value a call returns for x when it read hook h in useAfter.
ThroughHook(h, x) == IF h = NoHook THEN x ELSE callAfter(h, x)

\* C7: a call with an ok response resolves, when it read the flag as true, with
\* the response passed through the post-response hook it read, json() never
\* called; when it read the flag as false and json() resolved, with the parsed
\* body passed through the post-response hook it read.
TheoremC7 ==
    \A c \in CallIds :
        (Done(c) /\ Ok(calls[c].response)) =>
            /\ calls[c].rawRead = "true" =>
                 /\ calls[c].nJson = 0
                 /\ Resolved(c, ThroughHook(calls[c].afterRead, calls[c].response))
            /\ (calls[c].rawRead = "false" /\ calls[c].cause # "json") =>
                 /\ calls[c].nJson = 1
                 /\ Resolved(c, ThroughHook(calls[c].afterRead, calls[c].parsed))

\* One call resolved with the wrapped response, json() not called.
WitnessC7 ==
    \E c \in CallIds :
        /\ Done(c)
        /\ calls[c].rawRead = "true"
        /\ calls[c].afterRead = "wrap"
        /\ calls[c].nJson = 0
        /\ Resolved(c, Obj("{wrapped:Response 200}"))

ContentTypeJson == Header("Content-Type", "application/json")

\* A field of the configuration; no configuration object has no fields.
Configured(cfg, field) == IF cfg = NoConfig THEN Undefined ELSE cfg[field]

\* C8: a call with no override and no pre-request hook dispatches the header
\* Content-Type: application/json, followed by Authorization with the
\* configured string when that string is set and non-empty, and nothing else.
TheoremC8 ==
    \A c \in CallIds :
        (Fetching(c) /\ ~calls[c].customGiven /\ calls[c].nBefore = 0) =>
            LET auth == Configured(calls[c].cfg, "authorization")
            IN /\ "headers" \in DOMAIN calls[c].sentConfig
               /\ calls[c].sentConfig.headers =
                    IF auth.t = "string" /\ auth.v # ""
                    THEN <<ContentTypeJson, Header("Authorization", auth.v)>>
                    ELSE <<ContentTypeJson>>

\* A call dispatched with both headers.
WitnessC8 ==
    \E c \in CallIds :
        /\ Fetching(c) /\ ~calls[c].customGiven /\ calls[c].nBefore = 0
        /\ Configured(calls[c].cfg, "authorization") = Str("Bearer xyz")
        /\ calls[c].sentConfig.headers =
              <<ContentTypeJson, Header("Authorization", "Bearer xyz")>>

OptionKeys == {"method", "headers", "body"}

\* C9: a call given an override dispatches, for each key of the override, the
\* override's value, and for each of method, headers and body the override
\* lacks, the default (no pre-request hook registered).
ClaimC9 ==
    \A c \in CallIds :
        (Fetching(c) /\ calls[c].customGiven /\ calls[c].nBefore = 0) =>
            LET sent == calls[c].sentConfig
                custom == calls[c].custom
                basic == getBasicRequestConfig(calls[c].cfg, Str(calls[c].verb),
                                               calls[c].body)
            IN /\ \A k \in DOMAIN custom : k \in DOMAIN sent /\ sent[k] = custom[k]
               /\ \A k \in OptionKeys \ DOMAIN custom :
                     k \in DOMAIN sent /\ sent[k] = basic[k]

\* C10: without an override (and without a pre-request hook), post, put and
\* delete dispatch the JSON text of every body they are given and no body when
\* given none; get dispatches no body.
ClaimC10 ==
    \A c \in CallIds :
        (Fetching(c) /\ ~calls[c].customGiven /\ calls[c].nBefore = 0) =>
            /\ "body" \in DOMAIN calls[c].sentConfig
            /\ calls[c].sentConfig.body =
                  IF calls[c].verb = "GET" \/ calls[c].body = Undefined
                  THEN Undefined
                  ELSE JSONstringify(calls[c].body)

\* The URL and the headers a verb call derives from configuration cfg, by the
\* copy's own createApiUrl and basicHeaders.
DerivedUrl(cfg, path) == Concat(getApiUrl(createApiUrl(version, cfg)), path)
DerivedHeaders(cfg) == basicHeaders(cfg)

\* C11: a verb call (no override, no pre-request hook) dispatches the URL and
\* the headers derived from the configuration as it is when the call is made,
\* whatever assignments to its fields came before the call.
ClaimC11 ==
    \A c \in CallIds :
        (Fetching(c) /\ ~calls[c].customGiven /\ calls[c].nBefore = 0) =>
            /\ calls[c].sentUrl = DerivedUrl(calls[c].cfg, calls[c].path)
            /\ "headers" \in DOMAIN calls[c].sentConfig
            /\ calls[c].sentConfig.headers = DerivedHeaders(calls[c].cfg)

\* C12: while several verb calls are suspended on the transport and the
\* configuration is assigned to between them, the URL and the headers each of
\* them has dispatched are those derived from the configuration as it was when
\* that call started (each of them started under another configuration),
\* whatever the configuration and api_url have become.
ClaimC12 ==
    \A c \in CallIds :
        (Fetching(c)
           /\ \E d \in CallIds \ {c} : Fetching(d) /\ calls[d].cfg # calls[c].cfg) =>
            /\ calls[c].sentUrl = DerivedUrl(calls[c].cfg, calls[c].path)
            /\ "headers" \in DOMAIN calls[c].sentConfig
            /\ calls[c].sentConfig.headers = DerivedHeaders(calls[c].cfg)

\* Call c resumes from the transport with an ok response; call c resumes from
\* json() with a parsed body; the verb method of call c resumes with an envelope
\* that carries no error.
ResumesFromFetch(c) ==
    Fetching(c) /\ calls'[c].pc # "fetching" /\ Ok(calls'[c].response)
ResumesFromJson(c) ==
    calls[c].pc = "parsing" /\ calls'[c].pc = "returned" /\ calls'[c].cause = "none"
ResumesWithResult(c) ==
    calls[c].pc = "returned" /\ calls'[c].pc = "done" /\ calls[c].envelope.error = Null

ReturnsNext(c, x) == calls'[c].pc = "returned" /\ calls'[c].envelope = Envelope(x, Null)
ResolvedNext(c, x) == calls'[c].outcome = [kind |-> "resolved", value |-> x]

\* C13: what a call does with an ok response is fixed by returnFullRequest and
\* useAfter as they are when the call resumes, whatever they were when the call
\* was made: resuming from the transport with the flag set, fetchRequest returns
\* the response passed through the hook of that moment and never calls json();
\* with the flag unset it goes on to json(), and resuming from json() it returns
\* the parsed body passed through the hook of that moment.  What fetchRequest
\* has returned stays as it is, and the call resolves with it.
TheoremC13 ==
    [][\A c \in CallIds :
          /\ ResumesFromFetch(c) =>
                IF returnFullRequest
                THEN /\ calls'[c].nJson = 0
                     /\ ReturnsNext(c, ThroughHook(useAfter, calls'[c].response))
                ELSE calls'[c].pc = "parsing"
          /\ ResumesFromJson(c) =>
                ReturnsNext(c, ThroughHook(useAfter, calls'[c].parsed))
          /\ (calls[c].pc = "returned" /\ calls'[c].pc = "returned") =>
                calls'[c].envelope = calls[c].envelope
          /\ ResumesWithResult(c) => ResolvedNext(c, calls[c].envelope.result)]_vars

\* Two calls made with the flag unset and no hook, both answered 200: one
\* resolved with the parsed body, the other, the flag and the hook having been
\* assigned to while it was suspended, with the wrapped response.
WitnessC13 ==
    \E c, d \in CallIds :
        /\ Done(c) /\ Done(d)
        /\ calls[c].verb = calls[d].verb
        /\ ~calls[c].rawAtStart /\ ~calls[d].rawAtStart
        /\ calls[c].afterAtStart = NoHook /\ calls[d].afterAtStart = NoHook
        /\ calls[c].response = Response("200") /\ calls[d].response = Response("200")
        /\ Resolved(c, Todo)
        /\ calls[d].nJson = 0
        /\ Resolved(d, Obj("{wrapped:Response 200}"))

====
